---- MODULE Spec2Model ----
(***************************************************************************)
(* A model of the command-line core of tmo_api (src/src/tmo_api/cli):      *)
(* configuration resolution, date-range defaulting, binary-field           *)
(* classification and text rendering.  Python strings are TLA+ strings;    *)
(* a character of a string s is SubSeq(s, i, i).                           *)
(***************************************************************************)
EXTENDS Integers, Sequences, FiniteSets, TLC

VARIABLES pc,        \* which function of the CLI core returned last ("idle": none)
          config,    \* the parsed ~/.tmorc: a sequence of sections, in file order
          environ,   \* the process environment (os.environ)
          args,      \* the argparse.Namespace handed to resolve_config_values
          resolved,  \* what resolve_config_values returned or raised
          now,       \* what datetime.now() gave apply_default_date_ranges
          date_args, \* the Namespace handed to apply_default_date_ranges
          ranged,    \* the Namespace as apply_default_date_ranges left it, or its error
          field,     \* the field name and value handed to is_binary_field
          binary,    \* what is_binary_field returned
          response,  \* the response data handed to format_table_output
          output     \* the text format_table_output returned

vars == <<pc, config, environ, args, resolved, now, date_args, ranged, field, binary,
          response, output>>

renderVars == <<response, output>>

binaryVars == <<field, binary>>

configVars == <<config, environ, args, resolved>>

dateVars == <<now, date_args, ranged>>

(***************************************************************************)
(* Python values the configuration code handles.                           *)
(***************************************************************************)
\* Python's None (also: a key a section does not hold, an unset variable).
None == "None"

\* An attribute the Namespace does not have (getattr's default applies).
NoAttr == "NoAttr"

\* bool(v) of a str-or-None value: None and "" are false.
Truthy(v) == v # None /\ v # ""

Digits == {"0", "1", "2", "3", "4", "5", "6", "7", "8", "9"}

DigitChars == "0123456789"

DigitValue(c) == (CHOOSE i \in 1..10 : SubSeq(DigitChars, i, i) = c) - 1

IsDigits(s) == Len(s) > 0 /\ \A i \in 1..Len(s) : SubSeq(s, i, i) \in Digits

RECURSIVE DecimalValue(_)
DecimalValue(s) ==
    IF Len(s) = 0 THEN 0
    ELSE 10 * DecimalValue(SubSeq(s, 1, Len(s) - 1)) + DigitValue(SubSeq(s, Len(s), Len(s)))

\* int(s) of a string: an optional sign and decimal digits, else ValueError.
PyInt(s) ==
    LET signed == Len(s) > 0 /\ SubSeq(s, 1, 1) \in {"-", "+"}
        body == IF signed THEN SubSeq(s, 2, Len(s)) ELSE s
    IN  IF IsDigits(body)
        THEN [ok |-> TRUE,
              n |-> IF signed /\ SubSeq(s, 1, 1) = "-"
                    THEN 0 - DecimalValue(body) ELSE DecimalValue(body)]
        ELSE [ok |-> FALSE, n |-> 0]

\* sep.join(names)
RECURSIVE Join(_, _)
Join(names, sep) ==
    IF Len(names) = 0 THEN ""
    ELSE IF Len(names) = 1 THEN names[1]
    ELSE names[1] \o sep \o Join(Tail(names), sep)

(***************************************************************************)
(* Module constants of the CLI.                                            *)
(***************************************************************************)
TMORC_PATH == "~/.tmorc"

DEMO_TOKEN == "TMO"

DEMO_DATABASE == "API Sandbox"

(***************************************************************************)
(* The profile store, the environment and the arguments the model draws.   *)
(***************************************************************************)
\* The most sections a modelled ~/.tmorc holds.
MaxSections == 2

SectionNames == {"demo", "a"}

Sections ==
    [name : SectionNames,
     token : {None, "", "ptok"},
     database : {None, "", "pdb"},
     environment : {None},
     timeout : {None, "45", "abc"}]

\* configparser keeps one section per name.
Stores ==
    LET orders == {o \in UNION {[1..n -> SectionNames] : n \in 0..MaxSections} :
                      \A i, j \in 1..Len(o) : i # j => o[i] # o[j]}
    IN  UNION {{s \in [1..Len(o) -> Sections] : \A i \in 1..Len(o) : s[i].name = o[i]} :
                 o \in orders}

Environs == [TMO_API_TOKEN : {None, "", "etok"}, TMO_DATABASE : {None, "", "edb"}]

\* add_common_arguments gives token, database and environment the default None.
Namespaces ==
    [profile : {NoAttr, "demo", "a", "zz"},
     token : {None, "", "ctok"},
     database : {None, "", "cdb"},
     environment : {None}]

(***************************************************************************)
(* configparser.                                                           *)
(***************************************************************************)
\* A variant that also lists configparser's DEFAULT section.
get_config_profiles_with_default(cfg) ==
    <<"DEFAULT">> \o [i \in 1..Len(cfg) |-> cfg[i].name]

\* config.sections()
get_config_profiles(cfg) == [i \in 1..Len(cfg) |-> cfg[i].name]

has_section(cfg, name) == \E i \in 1..Len(cfg) : cfg[i].name = name

Section(cfg, name) == cfg[CHOOSE i \in 1..Len(cfg) : cfg[i].name = name]

\* SectionProxy.get(key, fallback)
SectionGet(value, fallback) == IF value = None THEN fallback ELSE value

\* SectionProxy.getint(key, fallback): the fallback stands in for a missing key
\* only; a value int() rejects raises ValueError.
SectionGetInt(value, fallback) ==
    IF value = None THEN [ok |-> TRUE, n |-> fallback] ELSE PyInt(value)

\* os.getenv(name)
getenv(env, name) == env[name]

(***************************************************************************)
(* resolve_config_values                                                   *)
(***************************************************************************)
DefaultTimeout == 30

Returned(values) == [outcome |-> "return", values |-> values, message |-> ""]

Raised(kind, message) ==
    [outcome |-> kind,
     values |-> [token |-> None, database |-> None, environment |-> None, timeout |-> 0],
     message |-> message]

ProfileNotFoundMessage(profile, available) ==
    "Profile '" \o profile \o "' not found in " \o TMORC_PATH \o ". "
    \o "Available profiles: "
    \o (IF Len(available) > 0 THEN Join(available, ", ") ELSE "none") \o ". "
    \o "Run 'tmoapi init' to create the config file."

TokenRequiredMessage ==
    "Token is required. Provide via --profile, --token, TMO_API_TOKEN env var, or run 'tmoapi init'."

DatabaseRequiredMessage ==
    "Database is required. Provide via --profile, --database, TMO_DATABASE env var, or run 'tmoapi init'."

\* A variant that tests the command-line value against None instead of for truth.
OverrideNotNone(seed, given) == IF given # NoAttr /\ given # None THEN given ELSE seed

\* Lines 126-132: a truthy command-line value replaces the seeded one.
Override(seed, given) == IF given # NoAttr /\ Truthy(given) THEN given ELSE seed

\* Lines 134-138: the environment variable is read only for a falsy value.
EnvFallback(value, env, name) == IF ~Truthy(value) THEN getenv(env, name) ELSE value

\* Lines 140-150.
Validate(values) ==
    IF ~Truthy(values.token) THEN Raised("ValidationError", TokenRequiredMessage)
    ELSE IF ~Truthy(values.database) THEN Raised("ValidationError", DatabaseRequiredMessage)
    ELSE Returned(values)

\* Lines 126-150, from the seeded values on.
Finish(seed, a, env) ==
    LET overridden ==
            [seed EXCEPT !.token = Override(seed.token, a.token),
                         !.database = Override(seed.database, a.database),
                         !.environment = Override(seed.environment, a.environment)]
        filled ==
            [overridden EXCEPT
                !.token = EnvFallback(overridden.token, env, "TMO_API_TOKEN"),
                !.database = EnvFallback(overridden.database, env, "TMO_DATABASE")]
    IN  Validate(filled)

resolve_config_values(cfg, a, env) ==
    LET defaults ==
            [token |-> None, database |-> None, environment |-> "us",
             timeout |-> DefaultTimeout]
        profile == IF a.profile = NoAttr THEN "demo" ELSE a.profile
    IN  IF has_section(cfg, profile)
        THEN LET profile_section == Section(cfg, profile)
                 timeout == SectionGetInt(profile_section.timeout, DefaultTimeout)
             IN  IF ~timeout.ok
                 THEN Raised("ValueError", "invalid literal for int() with base 10")
                 ELSE Finish([token |-> profile_section.token,
                              database |-> profile_section.database,
                              environment |-> SectionGet(profile_section.environment, "us"),
                              timeout |-> timeout.n], a, env)
        ELSE IF profile = "demo"
        THEN Finish([defaults EXCEPT !.token = DEMO_TOKEN,
                                     !.database = DEMO_DATABASE,
                                     !.environment = "us"], a, env)
        ELSE Raised("ValidationError",
                    ProfileNotFoundMessage(profile, get_config_profiles(cfg)))

(***************************************************************************)
(* datetime: a datetime is a day (the proleptic Gregorian ordinal, day 1   *)
(* being 01/01/0001) and a time of day in ticks; strptime of a date gives  *)
(* tick 0 (midnight), datetime.now() any tick.                             *)
(***************************************************************************)
\* How finely the model divides a day.
TicksPerDay == 2

IsLeap(y) == y % 4 = 0 /\ (y % 100 # 0 \/ y % 400 = 0)

DaysInMonth(y, m) ==
    IF m = 2 THEN (IF IsLeap(y) THEN 29 ELSE 28)
    ELSE IF m \in {4, 6, 9, 11} THEN 30 ELSE 31

DaysBeforeYear(y) ==
    (y - 1) * 365 + ((y - 1) \div 4) - ((y - 1) \div 100) + ((y - 1) \div 400)

RECURSIVE DaysBeforeMonth(_, _)
DaysBeforeMonth(y, m) ==
    IF m = 1 THEN 0 ELSE DaysBeforeMonth(y, m - 1) + DaysInMonth(y, m - 1)

\* datetime._ymd2ord
ymd2ord(y, m, d) == DaysBeforeYear(y) + DaysBeforeMonth(y, m) + d

\* datetime._ord2ymd
ord2ymd(ordinal) ==
    LET n0 == ordinal - 1
        n400 == n0 \div 146097
        r400 == n0 % 146097
        n100 == r400 \div 36524
        r100 == r400 % 36524
        n4 == r100 \div 1461
        r4 == r100 % 1461
        n1 == r4 \div 365
        n == r4 % 365
        year == n400 * 400 + 1 + n100 * 100 + n4 * 4 + n1
        leapyear == n1 = 3 /\ (n4 # 24 \/ n100 = 3)
        guess == (n + 50) \div 32
        before(m) == DaysBeforeMonth(IF leapyear THEN 2024 ELSE 2023, m)
        month == IF before(guess) > n THEN guess - 1 ELSE guess
    IN  IF n1 = 4 \/ n100 = 4
        THEN [y |-> year - 1, m |-> 12, d |-> 31]
        ELSE [y |-> year, m |-> month, d |-> n - before(month) + 1]

Midnight(ordinal) == [day |-> ordinal, tick |-> 0]

\* dt + timedelta(days=n)
PlusDays(dt, n) == [dt EXCEPT !.day = dt.day + n]

\* a > b on datetimes
Later(a, b) == a.day > b.day \/ (a.day = b.day /\ a.tick > b.tick)

\* The decimal digits of n, zero-padded to the given width.
RECURSIVE ZeroPadded(_, _)
ZeroPadded(n, width) ==
    IF width = 0 THEN ""
    ELSE ZeroPadded(n \div 10, width - 1) \o SubSeq(DigitChars, (n % 10) + 1, (n % 10) + 1)

\* dt.strftime("%m/%d/%Y"), for years of four digits
strftime(dt) ==
    LET c == ord2ymd(dt.day)
    IN  ZeroPadded(c.m, 2) \o "/" \o ZeroPadded(c.d, 2) \o "/" \o ZeroPadded(c.y, 4)

\* datetime.strptime(s, "%m/%d/%Y"): the month is 1[0-2]|0[1-9]|[1-9], the day
\* 3[01]|[12]\d|0[1-9]|[1-9]| [1-9], the year \d\d\d\d; the whole string must
\* match and name a day of the calendar, else ValueError (ok = FALSE).
strptime(s) ==
    LET slashes == {i \in 1..Len(s) : SubSeq(s, i, i) = "/"}
        s1 == CHOOSE i \in slashes : \A j \in slashes : i <= j
        s2 == CHOOSE i \in slashes : \A j \in slashes : i >= j
        mm == SubSeq(s, 1, s1 - 1)
        dd0 == SubSeq(s, s1 + 1, s2 - 1)
        dd == IF Len(dd0) = 2 /\ SubSeq(dd0, 1, 1) = " " THEN SubSeq(dd0, 2, 2) ELSE dd0
        yy == SubSeq(s, s2 + 1, Len(s))
        wellFormed ==
            /\ IsDigits(mm) /\ Len(mm) <= 2 /\ DecimalValue(mm) \in 1..12
            /\ IsDigits(dd) /\ Len(dd) <= 2 /\ DecimalValue(dd) \in 1..31
            /\ IsDigits(yy) /\ Len(yy) = 4 /\ DecimalValue(yy) >= 1
    IN  IF Cardinality(slashes) # 2 THEN [ok |-> FALSE, dt |-> Midnight(0)]
        ELSE IF ~wellFormed THEN [ok |-> FALSE, dt |-> Midnight(0)]
        ELSE IF DecimalValue(dd) > DaysInMonth(DecimalValue(yy), DecimalValue(mm))
        THEN [ok |-> FALSE, dt |-> Midnight(0)]
        ELSE [ok |-> TRUE,
              dt |-> Midnight(ymd2ord(DecimalValue(yy), DecimalValue(mm), DecimalValue(dd)))]

(***************************************************************************)
(* apply_default_date_ranges                                               *)
(***************************************************************************)
\* timedelta(days=31), the default window
DefaultDays == 31

\* timedelta(days=1), the tolerance on the end date
ToleranceDays == 1

EndDateTooLateMessage(today) ==
    "End date cannot be later than today (" \o strftime(today) \o ")"

EndDateFormatMessage == "End date must be in MM/DD/YYYY format"

StartDateFormatMessage == "Start date must be in MM/DD/YYYY format"

DatesReturned(a) == [outcome |-> "return", args |-> a, message |-> ""]

DatesRaised(a, message) == [outcome |-> "ValidationError", args |-> a, message |-> message]

\* A variant whose tolerance is a day longer.
ExceedsTodayByTwo(end_date, today) == Later(end_date, PlusDays(today, ToleranceDays + 1))

\* end_date > today + timedelta(days=1)
ExceedsToday(end_date, today) == Later(end_date, PlusDays(today, ToleranceDays))

\* A variant that clamps the derived end to the tolerance instead of to today.
DerivedEndAtTolerance(start_date, today) ==
    LET end_date == PlusDays(start_date, DefaultDays)
    IN  IF ExceedsToday(end_date, today) THEN PlusDays(today, ToleranceDays) ELSE end_date

\* Lines 228-231: start + 31 days, or today when that exceeds the tolerance.
DerivedEnd(start_date, today) ==
    LET end_date == PlusDays(start_date, DefaultDays)
    IN  IF ExceedsToday(end_date, today) THEN today ELSE end_date

\* Lines 203-245.  a is the Namespace; its start_date and end_date may be
\* missing (NoAttr), None, or strings.
apply_default_date_ranges(a, today) ==
    LET hasStart == a.start_date # NoAttr /\ Truthy(a.start_date)
        hasEnd == a.end_date # NoAttr /\ Truthy(a.end_date)
    IN  IF ~hasStart /\ ~hasEnd
        THEN DatesReturned([a EXCEPT !.end_date = strftime(today),
                                     !.start_date = strftime(PlusDays(today, 0 - DefaultDays)),
                                     !.used_default_dates = TRUE])
        ELSE IF hasEnd /\ ~hasStart
        THEN LET end_date == strptime(a.end_date)
             IN  IF ~end_date.ok THEN DatesRaised(a, EndDateFormatMessage)
                 ELSE IF ExceedsToday(end_date.dt, today)
                 THEN DatesRaised(a, EndDateTooLateMessage(today))
                 ELSE DatesReturned(
                         [a EXCEPT !.start_date =
                                      strftime(PlusDays(end_date.dt, 0 - DefaultDays))])
        ELSE IF hasStart /\ ~hasEnd
        THEN LET start_date == strptime(a.start_date)
             IN  IF ~start_date.ok THEN DatesRaised(a, StartDateFormatMessage)
                 ELSE DatesReturned(
                         [a EXCEPT !.end_date = strftime(DerivedEnd(start_date.dt, today))])
        ELSE LET end_date == strptime(a.end_date)
             IN  IF ~end_date.ok THEN DatesRaised(a, EndDateFormatMessage)
                 ELSE IF ExceedsToday(end_date.dt, today)
                 THEN DatesRaised(a, EndDateTooLateMessage(today))
                 ELSE DatesReturned(a)

(***************************************************************************)
(* The clock readings and the date arguments the model draws.              *)
(***************************************************************************)
\* The first day the modelled clock shows.
FirstDay == ymd2ord(2024, 3, 1)

\* How many days after FirstDay the clock may show.
ClockDays == 1

\* How many days before and after the first day a supplied date may lie.
DateSpan == 34

Clocks == [day : FirstDay..(FirstDay + ClockDays), tick : 0..(TicksPerDay - 1)]

\* Strings strptime rejects, or accepts without zero padding.
OddDates == {"2024-03-01", "13/01/2024", "02/30/2024", "3/1/24", "03/01/2024x",
             "3/1/2024", "03/ 1/2024"}

SuppliedDates ==
    {None, ""} \cup OddDates
    \cup {strftime(Midnight(d)) : d \in (FirstDay - DateSpan)..(FirstDay + DateSpan)}

DateNamespaces ==
    [start_date : SuppliedDates, end_date : SuppliedDates, used_default_dates : {FALSE}]

(***************************************************************************)
(* Characters.  Strings of the model are ASCII; CodePoint is ord().        *)
(***************************************************************************)
\* The printable ASCII characters from code point 32 (space) to 95 (_), and
\* from 97 (a) to 126 (~); a TLA+ string cannot hold code point 96.
PrintableLow == " !\"#$%&'()*+,-./0123456789:;<=>?@ABCDEFGHIJKLMNOPQRSTUVWXYZ[\\]^_"

PrintableHigh == "abcdefghijklmnopqrstuvwxyz{|}~"

\* The control characters the model writes: \t (9), \n (10), \f (12), \r (13).
Controls == "\t\n\f\r"

Chars(s) == {SubSeq(s, i, i) : i \in 1..Len(s)}

AllChars == Chars(PrintableLow) \cup Chars(PrintableHigh) \cup Chars(Controls)

CodePoints ==
    [c \in AllChars |->
        IF c = "\t" THEN 9
        ELSE IF c = "\n" THEN 10
        ELSE IF c = "\f" THEN 12
        ELSE IF c = "\r" THEN 13
        ELSE IF c \in Chars(PrintableLow)
        THEN 31 + (CHOOSE i \in 1..Len(PrintableLow) : SubSeq(PrintableLow, i, i) = c)
        ELSE 96 + (CHOOSE i \in 1..Len(PrintableHigh) : SubSeq(PrintableHigh, i, i) = c)]

CodePoint(c) == CodePoints[c]

\* chr(code), for the printable characters
CharAt(code) ==
    IF code <= 95 THEN SubSeq(PrintableLow, code - 31, code - 31)
    ELSE SubSeq(PrintableHigh, code - 96, code - 96)

\* str.lower() of one character: A-Z (65-90) move to a-z (97-122).
LowerChars ==
    [c \in AllChars |->
        IF CodePoints[c] \in 65..90 THEN CharAt(CodePoints[c] + 32) ELSE c]

RECURSIVE lower(_)
lower(s) == IF Len(s) = 0 THEN "" ELSE LowerChars[SubSeq(s, 1, 1)] \o lower(SubSeq(s, 2, Len(s)))

\* sub in s
Contains(s, sub) ==
    \E i \in 1..(Len(s) - Len(sub) + 1) : SubSeq(s, i, i + Len(sub) - 1) = sub

\* The characters of the class [A-Za-z0-9+/=\s].
Base64Class ==
    {c \in AllChars :
        \/ CodePoints[c] \in 65..90
        \/ CodePoints[c] \in 97..122
        \/ CodePoints[c] \in 48..57
        \/ c \in {"+", "/", "=", " ", "\t", "\n", "\f", "\r"}}

\* re.match(r"^[A-Za-z0-9+/=\s]+$", s)
MatchesBase64(s) == Len(s) > 0 /\ \A i \in 1..Len(s) : SubSeq(s, i, i) \in Base64Class

(***************************************************************************)
(* Python values handed to the renderer, tagged by their type:             *)
(*   [t |-> "str", s |-> a string]     [t |-> "int", n |-> an integer]     *)
(*   [t |-> "NoneType"]                [t |-> "list", items |-> <<values>>] *)
(*   [t |-> "dict", items |-> <<items>>], an item being [k |-> key,        *)
(*   v |-> value], in insertion order;  [t |-> "object", items |-> ...],   *)
(*   an object whose __dict__ holds the items.                             *)
(***************************************************************************)
PyString(s) == [t |-> "str", s |-> s]

PyInteger(n) == [t |-> "int", n |-> n]

PyNone == [t |-> "NoneType"]

PyList(items) == [t |-> "list", items |-> items]

PyDict(items) == [t |-> "dict", items |-> items]

PyObject(items) == [t |-> "object", items |-> items]

Item(k, v) == [k |-> k, v |-> v]

(***************************************************************************)
(* is_binary_field                                                         *)
(***************************************************************************)
binary_field_names ==
    <<"Cert_TemplateFile", "TemplateFile", "FileContent", "BinaryData", "ImageData",
      "DocumentData", "AttachmentData", "FileData">>

\* Line 276: the length above which a string is looked at.
LongStringLength == 100

\* Line 278: the length above which a base64-like string is binary.
Base64LikeLength == 200

\* Line 285: the length above which a list's first string is binary.
LongItemLength == 100

\* A variant that compares the field name without lower-casing it.
is_binary_field_case_sensitive(field_name, field_value) ==
    IF \E n \in 1..Len(binary_field_names) : Contains(field_name, binary_field_names[n])
    THEN TRUE
    ELSE IF /\ field_value.t = "str"
            /\ Len(field_value.s) > LongStringLength
            /\ MatchesBase64(field_value.s)
            /\ Len(field_value.s) > Base64LikeLength
    THEN TRUE
    ELSE IF /\ field_value.t = "list"
            /\ Len(field_value.items) > 0
            /\ field_value.items[1].t = "str"
            /\ Len(field_value.items[1].s) > LongItemLength
    THEN TRUE
    ELSE FALSE

\* Lines 248-288.
is_binary_field(field_name, field_value) ==
    LET field_name_lower == lower(field_name)
    IN  IF \E n \in 1..Len(binary_field_names) :
              Contains(field_name_lower, lower(binary_field_names[n]))
        THEN TRUE
        ELSE IF /\ field_value.t = "str"
                /\ Len(field_value.s) > LongStringLength
                /\ MatchesBase64(field_value.s)
                /\ Len(field_value.s) > Base64LikeLength
        THEN TRUE
        ELSE IF /\ field_value.t = "list"
                /\ Len(field_value.items) > 0
                /\ field_value.items[1].t = "str"
                /\ Len(field_value.items[1].s) > LongItemLength
        THEN TRUE
        ELSE FALSE

(***************************************************************************)
(* The field names and values the model classifies.                        *)
(***************************************************************************)
\* s repeated until it is n characters long.
RECURSIVE Repeated(_, _)
Repeated(s, n) == IF Len(s) >= n THEN SubSeq(s, 1, n) ELSE Repeated(s \o s, n)

\* How far beyond the base64 threshold the longest modelled string reaches.
ExtraLength == 50

ValueLengths ==
    {0, 1, LongStringLength - 10, LongStringLength, LongStringLength + 1,
     Base64LikeLength, Base64LikeLength + 1, Base64LikeLength + ExtraLength}

\* Strings of a given length: of the base64 class throughout (with and
\* without white space), or with one character outside it at the start, in
\* the middle or at the end.
StringsOfLength(n) ==
    {Repeated("Ab0+/=", n), Repeated("QUJD\nREVG IA==", n)}
    \cup (IF n = 0 THEN {}
          ELSE {"!" \o Repeated("A", n - 1),
                Repeated("A", n - 1) \o "-",
                Repeated("A", n \div 2) \o "_" \o Repeated("A", n - (n \div 2) - 1)})

ModelStrings == UNION {StringsOfLength(n) : n \in ValueLengths}

FieldNames ==
    {"Cert_TemplateFile", "myfiledata", "FILECONTENT", "xImageDatay", "Name", "File",
     "Template_File", ""}

FieldValues ==
    {PyString(s) : s \in ModelStrings}
    \cup {PyInteger(7), PyNone, PyList(<<>>), PyDict(<<>>),
          PyList(<<PyString(Repeated("A", LongItemLength))>>),
          PyList(<<PyString(Repeated("!", LongItemLength + 1))>>),
          PyList(<<PyInteger(7), PyString(Repeated("A", LongItemLength + 1))>>),
          PyList(<<PyString(Repeated("A", LongItemLength + 1)), PyInteger(7)>>),
          PyList(<<PyString("a"), PyString(Repeated("A", Base64LikeLength + 1))>>),
          PyDict(<<Item("k", PyString(Repeated("A", Base64LikeLength + 1)))>>)}

(***************************************************************************)
(* str(), repr() and json.dumps() of the modelled values.                  *)
(***************************************************************************)
\* str(n) of an integer
RECURSIVE Decimal(_)
Decimal(n) ==
    IF n < 0 THEN "-" \o Decimal(0 - n)
    ELSE IF n < 10 THEN SubSeq(DigitChars, n + 1, n + 1)
    ELSE Decimal(n \div 10) \o SubSeq(DigitChars, (n % 10) + 1, (n % 10) + 1)

\* One character of repr(str) between quotes of kind q.
ReprChar(c, q) ==
    IF c = "\\" THEN "\\\\"
    ELSE IF c = "\n" THEN "\\n"
    ELSE IF c = "\t" THEN "\\t"
    ELSE IF c = "\r" THEN "\\r"
    ELSE IF c = "\f" THEN "\\x0c"
    ELSE IF c = q THEN "\\" \o c
    ELSE c

\* One character of a JSON string.
JsonChar(c, q) ==
    IF c = "\\" THEN "\\\\"
    ELSE IF c = "\n" THEN "\\n"
    ELSE IF c = "\t" THEN "\\t"
    ELSE IF c = "\r" THEN "\\r"
    ELSE IF c = "\f" THEN "\\f"
    ELSE IF c = q THEN "\\" \o c
    ELSE c

\* The characters of s, each escaped, by halves.
RECURSIVE Escaped(_, _, _)
Escaped(s, q, json) ==
    IF Len(s) = 0 THEN ""
    ELSE IF Len(s) = 1 THEN (IF json THEN JsonChar(s, q) ELSE ReprChar(s, q))
    ELSE Escaped(SubSeq(s, 1, Len(s) \div 2), q, json)
         \o Escaped(SubSeq(s, (Len(s) \div 2) + 1, Len(s)), q, json)

\* repr(s) of a string: double quotes when it holds ' and no ", else single.
ReprString(s) ==
    IF Contains(s, "'") /\ ~Contains(s, "\"")
    THEN "\"" \o Escaped(s, "", FALSE) \o "\""
    ELSE "'" \o Escaped(s, "'", FALSE) \o "'"

\* The default repr of an object names its class and address; the model
\* writes one fixed text for it.
ObjectRepr == "<tmo_api.models.base.BaseModel object>"

RECURSIVE PyStr(_), PyRepr(_)
\* str(value)
PyStr(value) ==
    IF value.t = "str" THEN value.s
    ELSE IF value.t = "int" THEN Decimal(value.n)
    ELSE IF value.t = "NoneType" THEN "None"
    ELSE IF value.t = "list"
    THEN "[" \o Join([i \in 1..Len(value.items) |-> PyRepr(value.items[i])], ", ") \o "]"
    ELSE IF value.t = "dict"
    THEN "{" \o Join([i \in 1..Len(value.items) |->
                         ReprString(value.items[i].k) \o ": " \o PyRepr(value.items[i].v)],
                     ", ") \o "}"
    ELSE ObjectRepr

\* repr(value)
PyRepr(value) == IF value.t = "str" THEN ReprString(value.s) ELSE PyStr(value)

\* json.dumps(value, default=str)
RECURSIVE json_dumps(_)
json_dumps(value) ==
    IF value.t = "str" THEN "\"" \o Escaped(value.s, "\"", TRUE) \o "\""
    ELSE IF value.t = "int" THEN Decimal(value.n)
    ELSE IF value.t = "NoneType" THEN "null"
    ELSE IF value.t = "list"
    THEN "[" \o Join([i \in 1..Len(value.items) |-> json_dumps(value.items[i])], ", ") \o "]"
    ELSE IF value.t = "dict"
    THEN "{" \o Join([i \in 1..Len(value.items) |->
                         "\"" \o Escaped(value.items[i].k, "\"", TRUE) \o "\": "
                         \o json_dumps(value.items[i].v)],
                     ", ") \o "}"
    ELSE "\"" \o Escaped(ObjectRepr, "\"", TRUE) \o "\""

\* bool(value)
PyTruthy(value) ==
    IF value.t = "str" THEN value.s # ""
    ELSE IF value.t = "int" THEN value.n # 0
    ELSE IF value.t = "NoneType" THEN FALSE
    ELSE IF value.t \in {"list", "dict"} THEN Len(value.items) > 0
    ELSE TRUE

\* s.ljust(width)
ljust(s, width) == IF Len(s) >= width THEN s ELSE s \o Repeated(" ", width - Len(s))

\* a < b on strings: by code point, a proper prefix first.
StrLess(a, b) ==
    \E i \in 1..(Len(a) + 1) :
        /\ i <= Len(b)
        /\ SubSeq(a, 1, i - 1) = SubSeq(b, 1, i - 1)
        /\ \/ i = Len(a) + 1
           \/ CodePoint(SubSeq(a, i, i)) < CodePoint(SubSeq(b, i, i))

\* sorted(keys)
RECURSIVE sorted(_)
sorted(keys) ==
    IF keys = {} THEN <<>>
    ELSE LET least == CHOOSE k \in keys : \A other \in keys \ {k} : StrLess(k, other)
         IN  <<least>> \o sorted(keys \ {least})

Max(numbers) == CHOOSE n \in numbers : \A m \in numbers : m <= n

\* d.keys(), key in d and d.get(key, default) of a sequence of items
Keys(items) == {items[i].k : i \in 1..Len(items)}

ItemGet(items, key, default) ==
    IF key \in Keys(items)
    THEN items[CHOOSE i \in 1..Len(items) : items[i].k = key].v
    ELSE default

(***************************************************************************)
(* format_table_output and format_multiline_table                          *)
(***************************************************************************)
\* Line 406: more columns than this and the records are shown as blocks.
MultilineColumns == 10

\* Line 477: the width at which format_multiline_table wraps a value.
WrapWidth == 80

\* Line 467: what the record separator adds to the widest field name.
SeparatorExtra == 50

\* f"[BINARY DATA - {len(str(value))} bytes]"
BinaryPlaceholder(value) == "[BINARY DATA - " \o Decimal(Len(PyStr(value))) \o " bytes]"

\* Lines 338-344 and 357-363: one line of a single object.
KeyValueLine(key, value) ==
    IF is_binary_field(key, value)
    THEN key \o ": " \o BinaryPlaceholder(value)
    ELSE IF value.t \in {"dict", "list"}
    THEN key \o ": " \o json_dumps(value)
    ELSE key \o ": " \o PyStr(value)

KeyValueLines(items) ==
    Join([i \in 1..Len(items) |-> KeyValueLine(items[i].k, items[i].v)], "\n")

\* not k.startswith("_") and k != "raw_data" and v is not None
Shown(item) ==
    /\ ~(Len(item.k) > 0 /\ SubSeq(item.k, 1, 1) = "_")
    /\ item.k # "raw_data"
    /\ item.v.t # "NoneType"

\* The public attributes of an object, in order.
PublicItems(items) == SelectSeq(items, Shown)

\* A field with a Binary value replaced by the placeholder (lines 375-378, 384-387).
Redacted(item) ==
    IF is_binary_field(item.k, item.v)
    THEN Item(item.k, PyString(BinaryPlaceholder(item.v)))
    ELSE item

\* A variant that redacts the attributes of objects but not the items of dicts.
FilteredItemObjectsOnly(item) ==
    IF item.t = "object"
    THEN LET public == PublicItems(item.items)
         IN  PyDict([i \in 1..Len(public) |-> Redacted(public[i])])
    ELSE IF item.t = "dict"
    THEN item
    ELSE PyDict(<<Item("value", item)>>)

\* Lines 369-390: the dictionary shown for one element of a list.
FilteredItem(item) ==
    IF item.t = "object"
    THEN LET public == PublicItems(item.items)
         IN  PyDict([i \in 1..Len(public) |-> Redacted(public[i])])
    ELSE IF item.t = "dict"
    THEN PyDict([i \in 1..Len(item.items) |-> Redacted(item.items[i])])
    ELSE PyDict(<<Item("value", item)>>)

\* Lines 472-486: a value of a block, wrapped when it is wider than 80.
ValueDisplay(value, max_field_width) ==
    LET shown == IF value.t \in {"dict", "list"} THEN json_dumps(value) ELSE PyStr(value)
        chunks == (Len(shown) + WrapWidth - 1) \div WrapWidth
    IN  IF Len(shown) > WrapWidth
        THEN "\n" \o Join([j \in 1..chunks |->
                              Repeated(" ", max_field_width + 3)
                              \o SubSeq(shown, (j - 1) * WrapWidth + 1,
                                        IF j * WrapWidth < Len(shown)
                                        THEN j * WrapWidth ELSE Len(shown))],
                          "\n")
        ELSE shown

\* Lines 443-490.  An element of data that is no dict is skipped.
format_multiline_table(data, headers) ==
    LET max_field_width == Max({Len(headers[h]) : h \in 1..Len(headers)})
        Block(i) ==
            IF data[i].t # "dict" THEN <<>>
            ELSE (IF i > 1 THEN <<"">> ELSE <<>>)
                 \o <<"Record " \o Decimal(i) \o ":",
                      Repeated("-", max_field_width + SeparatorExtra)>>
                 \o [h \in 1..Len(headers) |->
                         ljust(headers[h], max_field_width) \o " : "
                         \o ValueDisplay(ItemGet(data[i].items, headers[h], PyString("")),
                                         max_field_width)]
        Blocks[i \in 0..Len(data)] == IF i = 0 THEN <<>> ELSE Blocks[i - 1] \o Block(i)
    IN  Join(Blocks[Len(data)], "\n")

\* Lines 397-434: the aligned table of at most ten columns.
TableOutput(dict_data, headers) ==
    LET col_widths ==
            [h \in 1..Len(headers) |->
                Max({Len(headers[h])}
                    \cup {Len(PyStr(ItemGet(dict_data[i].items, headers[h], PyString("")))) :
                            i \in {r \in 1..Len(dict_data) :
                                      headers[h] \in Keys(dict_data[r].items)}})]
        header_row ==
            Join([h \in 1..Len(headers) |-> ljust(headers[h], col_widths[h])], " | ")
        Row(i) ==
            Join([h \in 1..Len(headers) |->
                     ljust(PyStr(ItemGet(dict_data[i].items, headers[h], PyString(""))),
                           col_widths[h])],
                 " | ")
    IN  Join(<<header_row, Repeated("-", Len(header_row))>>
             \o [i \in 1..Len(dict_data) |-> Row(i)], "\n")

\* Lines 324-440.
format_table_output(data) ==
    IF data.t = "dict" THEN KeyValueLines(data.items)
    ELSE IF data.t = "object" THEN KeyValueLines(PublicItems(data.items))
    ELSE IF data.t = "list" /\ Len(data.items) > 0
    THEN LET dict_data == [i \in 1..Len(data.items) |-> FilteredItem(data.items[i])]
             headers == sorted(UNION {Keys(dict_data[i].items) : i \in 1..Len(dict_data)})
         IN  IF Len(dict_data) > 0 /\ dict_data[1].t = "dict"
             THEN IF Len(headers) > MultilineColumns
                  THEN format_multiline_table(dict_data, headers)
                  ELSE TableOutput(dict_data, headers)
             ELSE Join([i \in 1..Len(data.items) |-> PyStr(data.items[i])], "\n")
    ELSE IF PyTruthy(data) THEN PyStr(data) ELSE "No results found"

(***************************************************************************)
(* The data the model renders.                                             *)
(***************************************************************************)
\* The most fields of a modelled single object.
MaxFields == 2

\* The most elements of a modelled list.
MaxRecords == 2

ShownKeys == {"Name", "FileData"}

HiddenKeys == {"_client", "raw_data"}

PlainText == PyString("abc")

LongPlainText == PyString(Repeated("plain text. ", LongStringLength - 10))

Base64Text == PyString(Repeated("QUJD\nREVG IA==", Base64LikeLength + ExtraLength))

NotBase64Text == PyString(Repeated("A", Base64LikeLength) \o "!")

BlobList == PyList(<<PyString(Repeated("A", LongItemLength + 1))>>)

PlainList == PyList(<<PyString("a"), PyInteger(7)>>)

Scalars == {PlainText, PyInteger(7), PyNone}

RenderedValues ==
    Scalars \cup {LongPlainText, Base64Text, NotBase64Text, BlobList, PlainList,
                  PyDict(<<Item("k", PyString("v"))>>)}

\* The values of the fields of the records of a list.
RecordValues == {PlainText, Base64Text, BlobList}

ItemsOf(keys, values, most) ==
    {s \in UNION {[1..n -> [k : keys, v : values]] : n \in 0..most} :
        \A i, j \in 1..Len(s) : i # j => s[i].k # s[j].k}

\* Ten more columns, c0 .. c9.
Fillers == [i \in 1..MultilineColumns |-> Item("c" \o Decimal(i - 1), PyInteger(i))]

SingleObjects ==
    {PyDict(items) : items \in ItemsOf(ShownKeys, RenderedValues, MaxFields)}
    \cup {PyObject(items) : items \in ItemsOf(ShownKeys, RenderedValues, MaxFields)}
    \cup {PyObject(<<Item(h, Base64Text)>> \o items) :
            h \in HiddenKeys, items \in ItemsOf(ShownKeys, RecordValues, 1)}

\* The records of a list: dicts and objects of one field, a value of each
\* class under a plain name and a plain value under a denylisted name; the
\* empty dict; a dict showing None; an object with a private attribute and
\* an attribute left unset.
Records ==
    {PyDict(<<Item("Name", v)>>) : v \in RecordValues}
    \cup {PyObject(<<Item("Name", v)>>) : v \in RecordValues}
    \cup {PyDict(<<Item("FileData", PlainText)>>), PyObject(<<Item("FileData", PlainText)>>),
          PyDict(<<>>), PyDict(<<Item("Name", PyNone)>>),
          PyObject(<<Item("_client", Base64Text), Item("FileData", PyNone)>>)}

\* The record with the ten filler columns added.
Widened(record) == [record EXCEPT !.items = record.items \o Fillers]

Lists ==
    LET elements == Records \cup Scalars
        plain == UNION {[1..n -> elements] : n \in 0..MaxRecords}
    IN  {PyList(s) : s \in plain}
        \cup {PyList([s EXCEPT ![1] = Widened(s[1])]) :
                s \in {p \in plain : Len(p) > 0 /\ p[1] \in Records}}

Renderables == SingleObjects \cup Lists \cup Scalars \cup {PyString(""), PyInteger(0)}

(***************************************************************************)
(* One run of the command line resolves the configuration once, from the   *)
(* store and the environment as they are at that moment.                   *)
(***************************************************************************)
NoNamespace == [profile |-> NoAttr, token |-> None, database |-> None, environment |-> None]

NoEnviron == [TMO_API_TOKEN |-> None, TMO_DATABASE |-> None]

NotResolved == Raised("none", "")

NoDates == [start_date |-> None, end_date |-> None, used_default_dates |-> FALSE]

NoClock == [day |-> 0, tick |-> 0]

NotRanged == [outcome |-> "none", args |-> NoDates, message |-> ""]

NoField == Item("", PyNone)

Init ==
    /\ pc = "idle"
    /\ config = <<>>
    /\ environ = NoEnviron
    /\ args = NoNamespace
    /\ resolved = NotResolved
    /\ now = NoClock
    /\ date_args = NoDates
    /\ ranged = NotRanged
    /\ field = NoField
    /\ binary = FALSE
    /\ response = PyNone
    /\ output = ""

ResolveConfigValues ==
    /\ pc = "idle"
    /\ \E cfg \in Stores, a \in Namespaces, env \in Environs :
          /\ config' = cfg
          /\ args' = a
          /\ environ' = env
          /\ resolved' = resolve_config_values(cfg, a, env)
    /\ pc' = "resolve_config_values"
    /\ UNCHANGED <<dateVars, binaryVars, renderVars>>

ApplyDefaultDateRanges ==
    /\ pc = "idle"
    /\ \E a \in DateNamespaces, today \in Clocks :
          /\ date_args' = a
          /\ now' = today
          /\ ranged' = apply_default_date_ranges(a, today)
    /\ pc' = "apply_default_date_ranges"
    /\ UNCHANGED <<configVars, binaryVars, renderVars>>

IsBinaryField ==
    /\ pc = "idle"
    /\ \E name \in FieldNames, value \in FieldValues :
          /\ field' = Item(name, value)
          /\ binary' = is_binary_field(name, value)
    /\ pc' = "is_binary_field"
    /\ UNCHANGED <<configVars, dateVars, renderVars>>

FormatTableOutput ==
    /\ pc = "idle"
    /\ \E d \in Renderables :
          /\ response' = d
          /\ output' = format_table_output(d)
    /\ pc' = "format_table_output"
    /\ UNCHANGED <<configVars, dateVars, binaryVars>>

\* The process exits; the next run starts afresh.
Exit ==
    /\ pc # "idle"
    /\ pc' = "idle"
    /\ config' = <<>>
    /\ environ' = NoEnviron
    /\ args' = NoNamespace
    /\ resolved' = NotResolved
    /\ now' = NoClock
    /\ date_args' = NoDates
    /\ ranged' = NotRanged
    /\ field' = NoField
    /\ binary' = FALSE
    /\ response' = PyNone
    /\ output' = ""

NextConfig == ResolveConfigValues \/ Exit

SpecConfig == Init /\ [][NextConfig]_vars

NextDates == ApplyDefaultDateRanges \/ Exit

SpecDates == Init /\ [][NextDates]_vars

NextBinary == IsBinaryField \/ Exit

SpecBinary == Init /\ [][NextBinary]_vars

NextRender == FormatTableOutput \/ Exit

SpecRender == Init /\ [][NextRender]_vars

(***************************************************************************)
(* Properties of resolve_config_values.                                    *)
(***************************************************************************)
AfterResolve == pc = "resolve_config_values"

SelectedProfile == IF args.profile = NoAttr THEN "demo" ELSE args.profile

\* The value the selected profile seeds for a key: the stored one when the
\* name is a section of the store, the built-in one for "demo", else nothing.
SeededValue(key, builtin) ==
    IF \E i \in 1..Len(config) : config[i].name = SelectedProfile
    THEN (config[CHOOSE i \in 1..Len(config) : config[i].name = SelectedProfile])[key]
    ELSE IF SelectedProfile = "demo" THEN builtin ELSE None

FirstNonEmpty(candidates) ==
    IF \E i \in 1..Len(candidates) : Truthy(candidates[i])
    THEN candidates[CHOOSE i \in 1..Len(candidates) :
                        /\ Truthy(candidates[i])
                        /\ \A j \in 1..(i - 1) : ~Truthy(candidates[j])]
    ELSE None

\* C1: resolve_config_values either returns settings whose token and database
\* are both non-empty or raises ValidationError; when token and database are
\* both missing the error is the "Token is required" one.
C1_ResolvesOrValidationError ==
    AfterResolve =>
        /\ resolved.outcome \in {"return", "ValidationError"}
        /\ resolved.outcome = "return" =>
              /\ resolved.values.token \notin {None, ""}
              /\ resolved.values.database \notin {None, ""}
        /\ ( /\ resolved.outcome = "ValidationError"
             /\ FirstNonEmpty(<<args.token, SeededValue("token", DEMO_TOKEN),
                                environ.TMO_API_TOKEN>>) = None
             /\ FirstNonEmpty(<<args.database, SeededValue("database", DEMO_DATABASE),
                                environ.TMO_DATABASE>>) = None
             /\ (SelectedProfile = "demo"
                 \/ \E i \in 1..Len(config) : config[i].name = SelectedProfile)
           ) => SubSeq(resolved.message, 1, 17) = "Token is required"

\* C2: on success the token is the first non-empty value among the CLI
\* override, the seeded value and the environment variable, in that order,
\* and so is the database.
C2_PrecedenceOrder ==
    (AfterResolve /\ resolved.outcome = "return") =>
        /\ resolved.values.token =
              FirstNonEmpty(<<args.token, SeededValue("token", DEMO_TOKEN),
                              environ.TMO_API_TOKEN>>)
        /\ resolved.values.database =
              FirstNonEmpty(<<args.database, SeededValue("database", DEMO_DATABASE),
                              environ.TMO_DATABASE>>)

\* A run where the token comes from the environment because override and seed
\* are empty, while an empty database override leaves the stored database.
C2_Witness ==
    /\ AfterResolve
    /\ resolved.outcome = "return"
    /\ args.token = None
    /\ SeededValue("token", DEMO_TOKEN) = ""
    /\ resolved.values.token = "etok"
    /\ args.database = ""
    /\ environ.TMO_DATABASE = "edb"
    /\ resolved.values.database = "pdb"

ProfileMissing ==
    /\ AfterResolve
    /\ SelectedProfile # "demo"
    /\ \A i \in 1..Len(config) : config[i].name # SelectedProfile

\* C3: a profile that is neither a section of the store nor "demo" raises
\* ValidationError, whose message lists exactly the store's section names (or
\* "none"), whatever the overrides and the environment supply.
C3_MissingProfileListsSections ==
    ProfileMissing =>
        /\ resolved.outcome = "ValidationError"
        /\ resolved.message =
              "Profile '" \o SelectedProfile \o "' not found in ~/.tmorc. Available profiles: "
              \o (IF Len(config) = 0 THEN "none"
                  ELSE IF Len(config) = 1 THEN config[1].name
                  ELSE Join([i \in 1..Len(config) |-> config[i].name], ", "))
              \o ". Run 'tmoapi init' to create the config file."

\* A missing profile against a store of two sections, with overrides and
\* environment variables supplying both token and database.
C3_Witness ==
    /\ ProfileMissing
    /\ Len(config) = 2
    /\ args.token = "ctok" /\ args.database = "cdb"
    /\ environ.TMO_API_TOKEN = "etok" /\ environ.TMO_DATABASE = "edb"
    /\ resolved.outcome = "ValidationError"

\* C10: with the selected profile in the store, the timeout is the stored
\* integer when it parses and 30 when the key is absent or does not parse;
\* the timeout key never makes resolution fail.
C10_TimeoutDefaultsWhenUnparsable ==
    (AfterResolve /\ \E i \in 1..Len(config) : config[i].name = SelectedProfile) =>
        /\ resolved.outcome # "ValueError"
        /\ resolved.outcome = "return" =>
              resolved.values.timeout =
                 (IF SeededValue("timeout", None) = "45" THEN 45 ELSE 30)

(***************************************************************************)
(* Properties of apply_default_date_ranges.                                *)
(***************************************************************************)
AfterDates == pc = "apply_default_date_ranges"

StartGiven == Truthy(date_args.start_date)

EndGiven == Truthy(date_args.end_date)

\* The calendar day a date string names.
DayOf(s) == strptime(s).dt.day

\* C4: a supplied end date more than one calendar day after today raises
\* ValidationError, for every valid or absent start date, and every window
\* returned ends no later than one day after today.
C4_EndWithinTolerance ==
    AfterDates =>
        /\ ( /\ EndGiven
             /\ strptime(date_args.end_date).ok
             /\ DayOf(date_args.end_date) > now.day + 1
             /\ (StartGiven => strptime(date_args.start_date).ok)
           ) => ranged.outcome = "ValidationError"
        /\ ranged.outcome = "return" =>
              /\ strptime(ranged.args.end_date).ok
              /\ DayOf(ranged.args.end_date) <= now.day + 1

\* An end date two days after today, given late in the day with a valid
\* start date, is rejected.
C4_Witness ==
    /\ AfterDates
    /\ StartGiven /\ strptime(date_args.start_date).ok
    /\ EndGiven /\ strptime(date_args.end_date).ok
    /\ DayOf(date_args.end_date) = now.day + 2
    /\ now.tick = TicksPerDay - 1
    /\ ranged.outcome = "ValidationError"

\* C5: the derived bound is: neither date given, end = today and start =
\* today - 31 days; only an end, start = end - 31 days; only a start, end =
\* start + 31 days, or today when start + 31 days exceeds today + 1 day.  So
\* a derived window spans 31 days unless its end was clamped to today.
C5_DerivedWindow ==
    (AfterDates /\ ranged.outcome = "return") =>
        /\ (~StartGiven /\ ~EndGiven) =>
              /\ ranged.args.end_date = strftime(Midnight(now.day))
              /\ ranged.args.start_date = strftime(Midnight(now.day - 31))
        /\ (EndGiven /\ ~StartGiven) =>
              /\ ranged.args.end_date = date_args.end_date
              /\ ranged.args.start_date = strftime(Midnight(DayOf(date_args.end_date) - 31))
        /\ (StartGiven /\ ~EndGiven) =>
              /\ ranged.args.start_date = date_args.start_date
              /\ ranged.args.end_date =
                    strftime(Midnight(IF DayOf(date_args.start_date) + 31 > now.day + 1
                                      THEN now.day
                                      ELSE DayOf(date_args.start_date) + 31))
        /\ ( /\ ~(StartGiven /\ EndGiven)
             /\ ~(StartGiven /\ DayOf(date_args.start_date) + 31 > now.day + 1)
           ) => DayOf(ranged.args.end_date) - DayOf(ranged.args.start_date) = 31

\* Only a start date, five days before today: the end is clamped to today
\* and the window is shorter than 31 days.
C5_Witness ==
    /\ AfterDates
    /\ ranged.outcome = "return"
    /\ StartGiven /\ ~EndGiven
    /\ DayOf(date_args.start_date) = now.day - 5
    /\ ranged.args.end_date = strftime(Midnight(now.day))
    /\ DayOf(ranged.args.end_date) - DayOf(ranged.args.start_date) = 5

\* C6: a supplied start or end date that strptime does not accept as
\* MM/DD/YYYY raises a format ValidationError, whichever dates are given.
C6_MalformedDateRejected ==
    ( /\ AfterDates
      /\ \/ (StartGiven /\ ~strptime(date_args.start_date).ok)
         \/ (EndGiven /\ ~strptime(date_args.end_date).ok)
    ) => /\ ranged.outcome = "ValidationError"
         /\ ranged.message \in {"Start date must be in MM/DD/YYYY format",
                                "End date must be in MM/DD/YYYY format"}

\* C11: a window returned after a missing bound was derived (neither date
\* given, only an end, only a start) is well ordered, start <= end, for every
\* valid supplied date and every today, a start date after today included.
C11_DerivedWindowOrdered ==
    ( /\ AfterDates
      /\ ranged.outcome = "return"
      /\ ~(StartGiven /\ EndGiven)
    ) => /\ strptime(ranged.args.start_date).ok
         /\ strptime(ranged.args.end_date).ok
         /\ DayOf(ranged.args.start_date) <= DayOf(ranged.args.end_date)

(***************************************************************************)
(* Properties of is_binary_field.                                          *)
(***************************************************************************)
AfterBinary == pc = "is_binary_field"

Denylist ==
    {"cert_templatefile", "templatefile", "filecontent", "binarydata", "imagedata",
     "documentdata", "attachmentdata", "filedata"}

NameDenylisted(name) == \E d \in Denylist : Contains(lower(name), d)

OnlyBase64Characters(s) ==
    \A i \in 1..Len(s) :
        \/ CodePoint(SubSeq(s, i, i)) \in (65..90) \cup (97..122) \cup (48..57)
        \/ SubSeq(s, i, i) \in {"+", "/", "=", " ", "\t", "\n", "\f", "\r"}

LongBase64String(value) ==
    value.t = "str" /\ Len(value.s) > 200 /\ OnlyBase64Characters(value.s)

ListOfLongString(value) ==
    /\ value.t = "list"
    /\ value.items # <<>>
    /\ value.items[1].t = "str"
    /\ Len(value.items[1].s) > 100

\* C7: is_binary_field is true exactly when the lower-cased name contains a
\* denylisted substring, or the value is a string of more than 200
\* characters all of [A-Za-z0-9+/= and white space], or the value is a
\* non-empty list whose first element is a string of more than 100
\* characters.
C7_BinaryExactly ==
    AfterBinary =>
        (binary <=> \/ NameDenylisted(field.k)
                    \/ LongBase64String(field.v)
                    \/ ListOfLongString(field.v))

\* A base64-like string one character over the threshold, under a name not
\* on the denylist, is Binary.
C7_Witness ==
    /\ AfterBinary
    /\ field.k = "Name"
    /\ field.v.t = "str"
    /\ Len(field.v.s) = 201
    /\ binary = TRUE

(***************************************************************************)
(* Properties of format_table_output (the Text mode of the renderer).      *)
(***************************************************************************)
AfterRender == pc = "format_table_output"

IsMapping(value) == value.t \in {"dict", "object"}

\* The fields of a Mapping: the items of a dict; of an object, the public
\* attributes that hold a value.
FieldsOf(value) ==
    IF value.t = "dict" THEN value.items
    ELSE SelectSeq(value.items,
                   LAMBDA f : /\ SubSeq(f.k, 1, 1) # "_"
                              /\ f.k # "raw_data"
                              /\ f.v.t # "NoneType")

\* The first place sep occurs in s (0: nowhere).
FirstAt(s, sep) ==
    LET hits == {i \in 1..(Len(s) - Len(sep) + 1) : SubSeq(s, i, i + Len(sep) - 1) = sep}
    IN  IF hits = {} THEN 0 ELSE CHOOSE i \in hits : \A j \in hits : i <= j

RECURSIVE Split(_, _)
Split(s, sep) ==
    LET at == FirstAt(s, sep)
    IN  IF at = 0 THEN <<s>>
        ELSE <<SubSeq(s, 1, at - 1)>> \o Split(SubSeq(s, at + Len(sep), Len(s)), sep)

\* s without its trailing spaces
RECURSIVE RStrip(_)
RStrip(s) ==
    IF Len(s) > 0 /\ SubSeq(s, Len(s), Len(s)) = " " THEN RStrip(SubSeq(s, 1, Len(s) - 1))
    ELSE s

\* The placeholder the claim names, N being the length of str(value).
PlaceholderFor(value) == "[BINARY DATA - " \o Decimal(Len(PyStr(value))) \o " bytes]"

LooksLikePlaceholder(text) == Len(text) >= 15 /\ SubSeq(text, 1, 15) = "[BINARY DATA - "

\* What the output must show for a field, given the text shown for it.
ShownAsClassified(f, text) ==
    IF is_binary_field(f.k, f.v) THEN text = PlaceholderFor(f.v)
    ELSE ~LooksLikePlaceholder(text)

\* A single Mapping: line i of the output is "key: text" for field i.
SingleMappingRedacted(lines) ==
    LET fields == FieldsOf(response)
    IN  IF fields = <<>> THEN output = ""
        ELSE /\ Len(lines) = Len(fields)
             /\ \A i \in 1..Len(fields) :
                   LET prefix == fields[i].k \o ": "
                   IN  /\ SubSeq(lines[i], 1, Len(prefix)) = prefix
                       /\ ShownAsClassified(
                             fields[i], SubSeq(lines[i], Len(prefix) + 1, Len(lines[i])))

\* The column names of a list: the field names of its Mappings, and "value"
\* for an element that is no Mapping.
ColumnsOf(value) ==
    UNION {IF IsMapping(value.items[i])
           THEN {FieldsOf(value.items[i])[j].k : j \in 1..Len(FieldsOf(value.items[i]))}
           ELSE {"value"} : i \in 1..Len(value.items)}

\* The text a table shows for column key in the row of record i.
TableCell(lines, i, key) ==
    LET headers == Split(lines[1], " | ")
        cells == Split(lines[i + 2], " | ")
        column == CHOOSE h \in 1..Len(headers) : RStrip(headers[h]) = key
    IN  RStrip(cells[column])

\* The text the block of record i shows for field key.
BlockCell(lines, i, key, width) ==
    LET start == CHOOSE j \in 1..Len(lines) : lines[j] = "Record " \o Decimal(i) \o ":"
        next == IF \E j \in 1..Len(lines) : lines[j] = "Record " \o Decimal(i + 1) \o ":"
                THEN CHOOSE j \in 1..Len(lines) : lines[j] = "Record " \o Decimal(i + 1) \o ":"
                ELSE Len(lines) + 1
        prefix == key \o Repeated(" ", width - Len(key)) \o " : "
        line == CHOOSE j \in (start + 1)..(next - 1) :
                    SubSeq(lines[j], 1, Len(prefix)) = prefix
    IN  SubSeq(lines[line], Len(prefix) + 1, Len(lines[line]))

\* A list: every field of every Mapping in it shows as classified, in the
\* table of up to ten columns and in the blocks of wider records.
ListOfMappingsRedacted(lines) ==
    LET columns == ColumnsOf(response)
        width == Max({Len(c) : c \in columns})
        blocks == Cardinality(columns) > 10
    IN  \A i \in 1..Len(response.items) :
            IsMapping(response.items[i]) =>
                LET fields == FieldsOf(response.items[i])
                IN  \A j \in 1..Len(fields) :
                        ShownAsClassified(
                            fields[j],
                            IF blocks THEN BlockCell(lines, i, fields[j].k, width)
                            ELSE TableCell(lines, i, fields[j].k))

\* C8: in Text mode every field of a single Mapping, and of every Mapping of
\* a list shown as a table or as blocks, that is_binary_field classifies
\* Binary shows as "[BINARY DATA - N bytes]", N the length of str(value), in
\* place of the value; a Plain field never shows as the placeholder.
C8_BinaryFieldsRedacted ==
    AfterRender =>
        LET lines == Split(output, "\n")
        IN  /\ IsMapping(response) => SingleMappingRedacted(lines)
            /\ (response.t = "list" /\ Len(response.items) > 0) =>
                   ListOfMappingsRedacted(lines)

\* Blocks of eleven columns whose first record, a dict, holds a base64-like
\* string under a name that is not on the denylist.
C8_Witness ==
    /\ AfterRender
    /\ response.t = "list"
    /\ Len(response.items) = 2
    /\ response.items[1].t = "dict"
    /\ response.items[2].t = "object"
    /\ Cardinality(ColumnsOf(response)) = 11
    /\ \E j \in 1..Len(response.items[1].items) :
          /\ response.items[1].items[j].k = "Name"
          /\ response.items[1].items[j].v.t = "str"
          /\ Len(response.items[1].items[j].v.s) = 250
    /\ BlockCell(Split(output, "\n"), 1, "Name", 4) = "[BINARY DATA - 250 bytes]"

IsScalar(value) == value.t \in {"str", "int", "NoneType"}

\* C9: a non-empty list of Scalars renders as one line per element, the
\* element's str(), with no header row, separator line or padding.
C9_ScalarListOneValuePerLine ==
    ( /\ AfterRender
      /\ response.t = "list"
      /\ Len(response.items) > 0
      /\ \A i \in 1..Len(response.items) : IsScalar(response.items[i])
    ) => output = Join([i \in 1..Len(response.items) |-> PyStr(response.items[i])], "\n")

====
